---- MODULE Spec2Model ----
(***************************************************************************)
(* RentEase: booking lifecycle and wallet ledger.                          *)
(*                                                                         *)
(* The database holds three collections (users, items, bookings).  The    *)
(* multi-step handlers updateBookingStatus and extendRentalPeriod read the *)
(* booking once (findById + populate) and then issue a fixed sequence of   *)
(* awaited database writes; every await is a point where another request   *)
(* may run.  A request in flight is therefore its remaining sequence of    *)
(* writes (todo), computed from the snapshot it loaded.  Money is kept in   *)
(* whole currency units, dates in milliseconds (request dates are 18 hours *)
(* apart, so that day counts are rounded up).                              *)
(***************************************************************************)
EXTENDS Integers, Sequences, FiniteSets, TLC

VARIABLES users, items, bookings, reqs, resp, nops, settings

vars == <<users, items, bookings, reqs, resp, nops, settings>>

----------------------------------------------------------------------------
(* Bounds of the model *)

MaxBookings == 2
MaxOps == 5
MaxRaceOps == 4
MaxTick == 2
MaxInFlight == 2

(* Program constants *)

InitialBalance == 1000
DayMs == 1000 * 60 * 60 * 24
TickMs == (3 * DayMs) \div 4
PlatformFeePercent == 5

(* Fixtures: one listed item and three registered users *)

ItemDailyPrice == 50
ItemValue == 4480
ItemDepositPercentage == 20
TopUpAmount == 500
RefundAmount == 100

\* u1 books, u2 owns the item, u3 is a bystander; i0 is not in the database
Users == {"u1", "u2", "u3"}
ItemOwner == "u2"
ItemIds == {"i1", "i0"}
Bookers == {"u1", "u2"}
Funders == {"u1"}
Complainants == {"u1"}
Suspendable == {"u1"}
Dates == {k * TickMs : k \in 0..MaxTick}
\* New end dates asked of an extension: the dates above and one in between
ExtendDates == Dates \cup {TickMs + TickMs \div 2}
MessageText == "hello"
Targets == {"approved", "cancelled", "active", "completed"}
PaymentFlags == {"depositPaid", "depositRefunded", "finalPaymentMade", "lenderPaid"}
NoChange == "-"
NoBooking == 0

----------------------------------------------------------------------------
(* Arithmetic of the JavaScript runtime on the integers used here *)

\* Math.ceil(a / b), b > 0
Ceil(a, b) == -((-a) \div b)

Round_Floor(a, b) == a \div b

\* Math.round(a / b), b > 0: halves round towards +infinity
Round(a, b) == (2 * a + b) \div (2 * b)

----------------------------------------------------------------------------
(* Booking model *)

calculatePricing(dailyPrice, itemValue, depositPercentage, startDate, endDate) ==
  LET totalDays == Ceil(endDate - startDate, DayMs)
      subtotal == dailyPrice * totalDays
      depositAmount == Round(itemValue * depositPercentage, 100)
      platformFee == Round(subtotal * PlatformFeePercent, 100)
  IN [dailyPrice |-> dailyPrice,
      totalDays |-> totalDays,
      subtotal |-> subtotal,
      depositAmount |-> depositAmount,
      platformFee |-> platformFee,
      totalAmount |-> subtotal + depositAmount + platformFee,
      lenderEarnings |-> subtotal - platformFee]

\* bookingSchema.pre('save'): the document is rejected when this is false
preSaveValid(startDate, endDate) == ~(startDate >= endDate)

NewBooking(item, borrower, lender, startDate, endDate, pricing) ==
  [item |-> item, borrower |-> borrower, lender |-> lender,
   startDate |-> startDate, endDate |-> endDate,
   status |-> "pending",
   pricing |-> pricing,
   payment |-> [f \in PaymentFlags |-> FALSE],
   timeline |-> <<"pending">>,
   messages |-> <<>>]

----------------------------------------------------------------------------
(* Database writes issued by the handlers *)

NoDelta ==
  [status |-> NoChange, flags |-> {}, ext |-> <<>>, timeline |-> <<>>, messages |-> <<>>]

BlankOp ==
  [k |-> "", user |-> "", type |-> "", amount |-> 0, desc |-> "", bid |-> NoBooking,
   earn |-> 0, item |-> "", val |-> FALSE, inc |-> 0, delta |-> NoDelta]

\* User.findByIdAndUpdate(user, {$inc: wallet.balance, $push: wallet.transactions})
WalletOp(user, type, amount, desc, bid, earn) ==
  [BlankOp EXCEPT !.k = "wallet", !.user = user, !.type = type, !.amount = amount,
                  !.desc = desc, !.bid = bid, !.earn = earn]

\* Item.findByIdAndUpdate(item, {'availability.isAvailable': val})
AvailOp(item, val) == [BlankOp EXCEPT !.k = "avail", !.item = item, !.val = val]

StatsOp_NoCount(item, earn) ==
  [BlankOp EXCEPT !.k = "stats", !.item = item, !.inc = 0, !.earn = earn]

\* Item.findByIdAndUpdate(item, {$inc: {'stats.bookings': 1, 'stats.totalEarnings': earn}})
StatsOp(item, earn) ==
  [BlankOp EXCEPT !.k = "stats", !.item = item, !.inc = 1, !.earn = earn]

\* booking.save(): writes the paths modified on the loaded document
SaveOp(bid, delta) == [BlankOp EXCEPT !.k = "save", !.bid = bid, !.delta = delta]

Signed_Unsigned(type, amount) == amount

Signed(type, amount) == IF type = "credit" THEN amount ELSE -amount

ApplyWallet_NoPush(u, op) ==
  [u EXCEPT !.balance = @ + Signed(op.type, op.amount),
            !.totalEarnings = @ + op.earn]

ApplyWallet(u, op) ==
  [u EXCEPT !.balance = @ + Signed(op.type, op.amount),
            !.transactions = Append(@, [type |-> op.type, amount |-> op.amount,
                                        desc |-> op.desc, bookingId |-> op.bid]),
            !.totalEarnings = @ + op.earn]

ApplyDelta_ResetFlags(b, d) ==
  [b EXCEPT !.status = IF d.status = NoChange THEN @ ELSE d.status,
            !.payment = [f \in PaymentFlags |-> f \in d.flags],
            !.endDate = IF d.ext = <<>> THEN @ ELSE d.ext[1].endDate,
            !.pricing = IF d.ext = <<>> THEN @
                        ELSE [@ EXCEPT !.totalDays = d.ext[1].totalDays,
                                       !.subtotal = d.ext[1].subtotal,
                                       !.totalAmount = d.ext[1].totalAmount,
                                       !.lenderEarnings = d.ext[1].lenderEarnings],
            !.timeline = @ \o d.timeline,
            !.messages = @ \o d.messages]

ApplyDelta(b, d) ==
  [b EXCEPT !.status = IF d.status = NoChange THEN @ ELSE d.status,
            !.payment = [f \in PaymentFlags |-> IF f \in d.flags THEN TRUE ELSE @[f]],
            !.endDate = IF d.ext = <<>> THEN @ ELSE d.ext[1].endDate,
            !.pricing = IF d.ext = <<>> THEN @
                        ELSE [@ EXCEPT !.totalDays = d.ext[1].totalDays,
                                       !.subtotal = d.ext[1].subtotal,
                                       !.totalAmount = d.ext[1].totalAmount,
                                       !.lenderEarnings = d.ext[1].lenderEarnings],
            !.timeline = @ \o d.timeline,
            !.messages = @ \o d.messages]

----------------------------------------------------------------------------
(* Queries *)

BookingIds == 1..Len(bookings)

conflictingBooking_Strict(item, startDate, endDate) ==
  \E b \in BookingIds :
    /\ bookings[b].item = item
    /\ bookings[b].status \in {"approved", "active"}
    /\ bookings[b].startDate < endDate
    /\ bookings[b].endDate > startDate

\* Booking.findOne({item, status in [approved, active],
\*                  startDate <= endDate', endDate >= startDate'})
conflictingBooking(item, startDate, endDate) ==
  \E b \in BookingIds :
    /\ bookings[b].item = item
    /\ bookings[b].status \in {"approved", "active"}
    /\ bookings[b].startDate <= endDate
    /\ bookings[b].endDate >= startDate

Request(handler, actor, bid, target) ==
  [handler |-> handler, actor |-> actor, bid |-> bid, target |-> target]

\* The answer most recently sent: which handler answered and the HTTP status
Response(rq, code) == [handler |-> rq.handler, code |-> code]

FreeSlot == CHOOSE n \in 1..(Cardinality(reqs) + 1) : \A r \in reqs : r.slot # n

InFlight(rq, todo) ==
  [slot |-> FreeSlot, handler |-> rq.handler, actor |-> rq.actor, bid |-> rq.bid,
   target |-> rq.target, todo |-> todo]

----------------------------------------------------------------------------
(* Initial state: registered users with the default wallet, one listed item *)

Init ==
  /\ users = [u \in Users |-> [balance |-> InitialBalance, transactions |-> <<>>,
                               totalEarnings |-> 0, isSuspended |-> FALSE]]
  /\ items = [i \in {"i1"} |-> [owner |-> ItemOwner, dailyPrice |-> ItemDailyPrice,
                                itemValue |-> ItemValue,
                                depositPercentage |-> ItemDepositPercentage,
                                isAvailable |-> TRUE, bookings |-> 0,
                                totalEarnings |-> 0]]
  /\ bookings = <<>>
  /\ reqs = {}
  /\ resp = Response(Request("", "", NoBooking, ""), 0)
  /\ nops = 0
  /\ settings = [maintenanceMode |-> FALSE]

\* One more request is answered or reaches its handler; only
\* updateAdminSettings writes the settings
Accept ==
  /\ nops < MaxOps
  /\ nops' = nops + 1
  /\ UNCHANGED settings

\* auth middleware: a suspended account is answered 403
suspended(actor) == users[actor].isSuspended

Reject(rq, code) ==
  /\ resp' = Response(rq, code)
  /\ UNCHANGED <<users, items, bookings, reqs>>

----------------------------------------------------------------------------
(* Maintenance middleware, mounted in front of every route.  A path is the *)
(* sequence of its segments.  updateAdminSettings clears the middleware's  *)
(* cache after saving, so the cached copy is the stored settings.          *)

BookingsPath == <<"api", "bookings">>
StatusPath == <<"api", "bookings", ":id", "status">>
MessagesPath == <<"api", "bookings", ":id", "messages">>
ExtendRentalPath == <<"api", "items", "extend-rental">>
AddToWalletPath == <<"api", "auth", "add-to-wallet">>
ComplaintPath == <<"api", "admin", "complaints", ":id">>
SuspendPath == <<"api", "admin", "users", ":id", "suspend">>
SettingsPath == <<"api", "admin", "settings">>

startsWith(path, prefix) ==
  Len(prefix) <= Len(path) /\ SubSeq(path, 1, Len(prefix)) = prefix

passThrough(path) ==
  \/ startsWith(path, <<"api", "admin">>)
  \/ path = <<"health">>
  \/ path = <<"api", "auth", "login">>

isMaintenanceEnabled == settings.maintenanceMode

shouldBlock(method, path) ==
  /\ method \notin {"GET", "HEAD"}
  /\ \/ startsWith(path, <<"api", "bookings">>)
     \/ path = <<"api", "auth", "add-to-wallet">>
     \/ path = <<"api", "auth", "change-password">>
     \/ path = <<"api", "auth", "profile">>

\* The request is answered 503 or handed on to its route (next)
maintenanceMode(method, path, handler, next) ==
  IF ~passThrough(path) /\ isMaintenanceEnabled /\ shouldBlock(method, path)
    THEN Accept /\ Reject(Request(handler, "", NoBooking, ""), 503)
    ELSE next

----------------------------------------------------------------------------
(* createBooking *)

insufficientBalance_Deposit(borrower, pricing) ==
  borrower.balance < pricing.depositAmount

\* The wallet must cover the whole price at request time
insufficientBalance(borrower, pricing) ==
  borrower.balance < pricing.totalAmount

createBooking(actor, itemId, startDate, endDate) ==
  LET rq == Request("createBooking", actor, NoBooking, itemId)
  IN
  /\ Accept
  /\ IF suspended(actor) THEN Reject(rq, 403)
     ELSE IF itemId \notin DOMAIN items THEN Reject(rq, 404)
     ELSE IF items[itemId].owner = actor THEN Reject(rq, 400)
     ELSE IF ~items[itemId].isAvailable THEN Reject(rq, 400)
     ELSE IF conflictingBooking(itemId, startDate, endDate) THEN Reject(rq, 400)
     ELSE
       LET pricing == calculatePricing(items[itemId].dailyPrice, items[itemId].itemValue,
                                       items[itemId].depositPercentage, startDate, endDate)
       IN IF insufficientBalance(users[actor], pricing) THEN Reject(rq, 400)
          ELSE IF ~preSaveValid(startDate, endDate) THEN Reject(rq, 500)
          ELSE /\ Len(bookings) < MaxBookings
               /\ bookings' = Append(bookings,
                      NewBooking(itemId, actor, items[itemId].owner, startDate, endDate, pricing))
               /\ resp' = Response(rq, 201)
               /\ UNCHANGED <<users, items, reqs>>

----------------------------------------------------------------------------
(* updateBookingStatus *)

StatusDelta_NoFlags(doc, status, flags) ==
  [NoDelta EXCEPT !.status = IF doc.status = status THEN NoChange ELSE status,
                  !.timeline = <<status>>]

\* The paths a handler modifies on the loaded document doc
StatusDelta(doc, status, flags) ==
  [NoDelta EXCEPT !.status = IF doc.status = status THEN NoChange ELSE status,
                  !.flags = {f \in flags : ~doc.payment[f]},
                  !.timeline = <<status>>]

\* The branch conditions of updateBookingStatus on the loaded document
Approves(doc, status) == status = "approved" /\ doc.status = "pending"

Cancels(doc, status) == status = "cancelled"

Activates_AnyStatus(doc, status) == status = "active"

Activates(doc, status) == status = "active" /\ doc.status = "approved"

Completes_AnyStatus(doc, status) == status = "completed"

Completes(doc, status) == status = "completed" /\ doc.status = "active"

refundOf_Deposit(doc) == doc.pricing.depositAmount

\* The amount a cancellation credits back to the borrower
refundOf(doc) == doc.pricing.totalAmount

StatusTodo_UnpaidApproval(bid, doc, status) ==
  IF Approves(doc, status) THEN
    << AvailOp(doc.item, FALSE),
       SaveOp(bid, StatusDelta(doc, "approved", {})) >>
  ELSE IF Cancels(doc, status) THEN
    (IF doc.payment.depositPaid
       THEN << WalletOp(doc.borrower, "credit", refundOf(doc), "refund", bid, 0) >>
       ELSE << >>)
    \o << AvailOp(doc.item, TRUE),
          SaveOp(bid, StatusDelta(doc, "cancelled", {})) >>
  ELSE IF Activates(doc, status) THEN
    << AvailOp(doc.item, FALSE),
       SaveOp(bid, StatusDelta(doc, "active", {})) >>
  ELSE IF Completes(doc, status) THEN
    << WalletOp(doc.lender, "credit", doc.pricing.lenderEarnings, "earnings", bid,
                doc.pricing.lenderEarnings),
       WalletOp(doc.borrower, "credit", doc.pricing.depositAmount, "deposit", bid, 0),
       AvailOp(doc.item, TRUE),
       StatsOp(doc.item, doc.pricing.lenderEarnings),
       SaveOp(bid, StatusDelta(doc, "completed",
                               {"finalPaymentMade", "lenderPaid", "depositRefunded"})) >>
  ELSE << SaveOp(bid, NoDelta) >>

\* The writes of updateBookingStatus after it loaded doc, in program order
StatusTodo(bid, doc, status) ==
  IF Approves(doc, status) THEN
    << WalletOp(doc.borrower, "debit", doc.pricing.totalAmount, "payment", bid, 0),
       AvailOp(doc.item, FALSE),
       SaveOp(bid, StatusDelta(doc, "approved", {"depositPaid"})) >>
  ELSE IF Cancels(doc, status) THEN
    (IF doc.payment.depositPaid
       THEN << WalletOp(doc.borrower, "credit", refundOf(doc), "refund", bid, 0) >>
       ELSE << >>)
    \o << AvailOp(doc.item, TRUE),
          SaveOp(bid, StatusDelta(doc, "cancelled", {})) >>
  ELSE IF Activates(doc, status) THEN
    << AvailOp(doc.item, FALSE),
       SaveOp(bid, StatusDelta(doc, "active", {})) >>
  ELSE IF Completes(doc, status) THEN
    << WalletOp(doc.lender, "credit", doc.pricing.lenderEarnings, "earnings", bid,
                doc.pricing.lenderEarnings),
       WalletOp(doc.borrower, "credit", doc.pricing.depositAmount, "deposit", bid, 0),
       AvailOp(doc.item, TRUE),
       StatsOp(doc.item, doc.pricing.lenderEarnings),
       SaveOp(bid, StatusDelta(doc, "completed",
                               {"finalPaymentMade", "lenderPaid", "depositRefunded"})) >>
  ELSE << SaveOp(bid, NoDelta) >>

lenderOnly_ApproveOnly(doc, actor, status) ==
  status = "approved" /\ doc.lender # actor

\* The authorization test: approving and cancelling are the lender's
lenderOnly(doc, actor, status) ==
  status \in {"approved", "cancelled"} /\ doc.lender # actor

updateBookingStatus(actor, bid, status) ==
  LET rq == Request("updateBookingStatus", actor, bid, status)
  IN
  /\ Accept
  /\ Cardinality(reqs) < MaxInFlight
  /\ IF suspended(actor) THEN Reject(rq, 403)
     ELSE IF bid \notin BookingIds THEN Reject(rq, 404)
     ELSE IF lenderOnly(bookings[bid], actor, status) THEN Reject(rq, 403)
     ELSE /\ reqs' = reqs \cup {InFlight(rq, StatusTodo(bid, bookings[bid], status))}
          /\ UNCHANGED <<users, items, bookings, resp>>

----------------------------------------------------------------------------
(* extendRentalPeriod *)

ExtendDelta_StaleTotal(doc, newEnd, additionalDays, additionalCost) ==
  [NoDelta EXCEPT
     !.ext = << [endDate |-> newEnd,
                 totalDays |-> doc.pricing.totalDays + additionalDays,
                 subtotal |-> doc.pricing.subtotal + additionalCost,
                 totalAmount |-> doc.pricing.totalAmount,
                 lenderEarnings |-> doc.pricing.lenderEarnings + additionalCost] >>,
     !.timeline = <<"extended">>]

ExtendDelta(doc, newEnd, additionalDays, additionalCost) ==
  [NoDelta EXCEPT
     !.ext = << [endDate |-> newEnd,
                 totalDays |-> doc.pricing.totalDays + additionalDays,
                 subtotal |-> doc.pricing.subtotal + additionalCost,
                 totalAmount |-> doc.pricing.totalAmount + additionalCost,
                 lenderEarnings |-> doc.pricing.lenderEarnings + additionalCost] >>,
     !.timeline = <<"extended">>]

additionalCostOf_WholeStay(doc, additionalDays) ==
  (doc.pricing.totalDays + additionalDays) * doc.pricing.dailyPrice

\* The price of the added days at the booking's daily price
additionalCostOf(doc, additionalDays) == additionalDays * doc.pricing.dailyPrice

extendableStatus_NotPending(doc) == doc.status # "pending"

\* Only a booking that holds the item can be extended
extendableStatus(doc) == doc.status \in {"approved", "active"}

extendRentalPeriod(actor, bid, newEnd) ==
  LET rq == Request("extendRentalPeriod", actor, bid, "")
  IN
  /\ Accept
  /\ Cardinality(reqs) < MaxInFlight
  /\ IF suspended(actor) THEN Reject(rq, 403)
     ELSE IF bid \notin BookingIds THEN Reject(rq, 404)
     ELSE
       LET doc == bookings[bid]
           additionalDays == Ceil(newEnd - doc.endDate, DayMs)
           additionalCost == additionalCostOf(doc, additionalDays)
       IN IF items[doc.item].owner # actor THEN Reject(rq, 403)
          ELSE IF ~extendableStatus(doc) THEN Reject(rq, 400)
          ELSE IF newEnd <= doc.startDate THEN Reject(rq, 400)
          ELSE IF newEnd <= doc.endDate THEN Reject(rq, 400)
          ELSE IF users[doc.borrower].balance < additionalCost THEN Reject(rq, 400)
          ELSE /\ reqs' = reqs \cup
                    {InFlight(rq,
                       << WalletOp(doc.borrower, "debit", additionalCost, "extension", bid, 0),
                          SaveOp(bid, ExtendDelta(doc, newEnd, additionalDays,
                                                  additionalCost)) >>)}
               /\ UNCHANGED <<users, items, bookings, resp>>

----------------------------------------------------------------------------
(* addBookingMessage *)

involved_Anyone(doc, actor) == TRUE

\* Only the two parties of a booking may write in its conversation
involved(doc, actor) == actor \in {doc.borrower, doc.lender}

\* booking.messages.push({sender, message}); booking.save()
MessageDelta(actor, message) ==
  [NoDelta EXCEPT !.messages = << [sender |-> actor, message |-> message] >>]

addBookingMessage(actor, bid, message) ==
  LET rq == Request("addBookingMessage", actor, bid, message)
  IN
  /\ Accept
  /\ Cardinality(reqs) < MaxInFlight
  /\ IF suspended(actor) THEN Reject(rq, 403)
     ELSE IF bid \notin BookingIds THEN Reject(rq, 404)
     ELSE IF ~involved(bookings[bid], actor) THEN Reject(rq, 403)
     ELSE /\ reqs' = reqs \cup {InFlight(rq, << SaveOp(bid, MessageDelta(actor, message)) >>)}
          /\ UNCHANGED <<users, items, bookings, resp>>

----------------------------------------------------------------------------
(* Single-write handlers *)

addToWallet(actor, amount) ==
  LET rq == Request("addToWallet", actor, NoBooking, "")
  IN
  /\ Accept
  /\ IF suspended(actor) THEN Reject(rq, 403)
     ELSE IF amount <= 0 THEN Reject(rq, 400)
     ELSE /\ users' = [users EXCEPT ![actor] =
                  ApplyWallet(@, WalletOp(actor, "credit", amount, "topup", NoBooking, 0))]
          /\ resp' = Response(rq, 200)
          /\ UNCHANGED <<items, bookings, reqs>>

\* updateComplaint resolved with action 'refund': credits the complainant
updateComplaint(complainant, amount) ==
  LET rq == Request("updateComplaint", "admin", NoBooking, complainant)
  IN
  /\ Accept
  /\ amount # 0
  /\ users' = [users EXCEPT ![complainant] =
          ApplyWallet(@, WalletOp(complainant, "credit", amount, "complaint", NoBooking, 0))]
  /\ resp' = Response(rq, 200)
  /\ UNCHANGED <<items, bookings, reqs>>

\* Booking.updateMany({borrower or lender = u, status in [pending, approved]},
\*                    {status: 'cancelled', $push: {timeline}})
cancelBookingsOf(u) ==
  [b \in BookingIds |->
     IF /\ (bookings[b].borrower = u \/ bookings[b].lender = u)
        /\ bookings[b].status \in {"pending", "approved"}
     THEN [bookings[b] EXCEPT !.status = "cancelled",
                              !.timeline = Append(@, "cancelled")]
     ELSE bookings[b]]

toggleUserSuspension(u) ==
  LET rq == Request("toggleUserSuspension", "admin", NoBooking, u)
  IN
  /\ Accept
  /\ users' = [users EXCEPT ![u].isSuspended = ~@]
  /\ bookings' = IF ~users[u].isSuspended THEN cancelBookingsOf(u) ELSE bookings
  /\ resp' = Response(rq, 200)
  /\ UNCHANGED <<items, reqs>>

----------------------------------------------------------------------------
(* One awaited database write of a request in flight *)

Exec(op) ==
  /\ users' = IF op.k = "wallet"
                THEN [users EXCEPT ![op.user] = ApplyWallet(@, op)]
                ELSE users
  /\ items' = IF op.k = "avail" THEN [items EXCEPT ![op.item].isAvailable = op.val]
              ELSE IF op.k = "stats"
                THEN [items EXCEPT ![op.item].bookings = @ + op.inc,
                                   ![op.item].totalEarnings = @ + op.earn]
              ELSE items
  /\ bookings' = IF op.k = "save"
                   THEN [bookings EXCEPT ![op.bid] = ApplyDelta(@, op.delta)]
                   ELSE bookings

Step(r) ==
  /\ r \in reqs
  /\ Exec(Head(r.todo))
  /\ IF Len(r.todo) = 1
       THEN /\ reqs' = reqs \ {r}
            /\ resp' = Response(r, 200)
       ELSE /\ reqs' = (reqs \ {r}) \cup {[r EXCEPT !.todo = Tail(@)]}
            /\ resp' = resp
  /\ UNCHANGED <<nops, settings>>

\* GET /api/bookings: reads only
getUserBookings(actor) ==
  LET rq == Request("getUserBookings", actor, NoBooking, "")
  IN
  /\ Accept
  /\ IF suspended(actor) THEN Reject(rq, 403) ELSE Reject(rq, 200)

\* PUT /api/admin/settings with the body {maintenanceMode: enabled}
updateAdminSettings(enabled) ==
  LET rq == Request("updateAdminSettings", "admin", NoBooking, "")
  IN
  /\ nops < MaxOps
  /\ nops' = nops + 1
  /\ settings' = [settings EXCEPT !.maintenanceMode = enabled]
  /\ resp' = Response(rq, 200)
  /\ UNCHANGED <<users, items, bookings, reqs>>

\* An awaited write rejects (database error): the catch block answers 500
\* and the writes already made stay
Fail(r) ==
  /\ r \in reqs
  /\ reqs' = reqs \ {r}
  /\ resp' = Response(r, 500)
  /\ UNCHANGED <<users, items, bookings, nops, settings>>

----------------------------------------------------------------------------
(* Specifications *)

Create ==
  maintenanceMode("POST", BookingsPath, "createBooking",
    \E a \in Bookers, i \in ItemIds, s \in Dates, e \in Dates :
      createBooking(a, i, s, e))

UpdateStatus ==
  maintenanceMode("PUT", StatusPath, "updateBookingStatus",
    \E a \in Users, b \in 1..MaxBookings, t \in Targets :
      updateBookingStatus(a, b, t))

Extend ==
  maintenanceMode("POST", ExtendRentalPath, "extendRentalPeriod",
    \E a \in Bookers, b \in 1..MaxBookings, e \in ExtendDates :
      extendRentalPeriod(a, b, e))

Message ==
  maintenanceMode("POST", MessagesPath, "addBookingMessage",
    \E a \in Users, b \in 1..MaxBookings : addBookingMessage(a, b, MessageText))

TopUp ==
  maintenanceMode("POST", AddToWalletPath, "addToWallet",
    \E a \in Funders, m \in {0, TopUpAmount} : addToWallet(a, m))

Refund ==
  maintenanceMode("PUT", ComplaintPath, "updateComplaint",
    \E u \in Complainants : updateComplaint(u, RefundAmount))

Suspend ==
  maintenanceMode("PUT", SuspendPath, "toggleUserSuspension",
    \E u \in Suspendable : toggleUserSuspension(u))

GetBookings ==
  maintenanceMode("GET", BookingsPath, "getUserBookings",
    \E a \in Bookers : getUserBookings(a))

UpdateSettings ==
  maintenanceMode("PUT", SettingsPath, "updateAdminSettings",
    \E m \in BOOLEAN : updateAdminSettings(m))

\* Requests interleave at every await
Next ==
  \/ nops < MaxRaceOps /\ Create
  \/ nops < MaxRaceOps /\ UpdateStatus
  \/ nops < MaxRaceOps /\ Extend
  \/ nops < MaxRaceOps /\ Message
  \/ nops < MaxRaceOps /\ TopUp
  \/ nops < MaxRaceOps /\ Refund
  \/ nops < MaxRaceOps /\ Suspend
  \/ \E r \in reqs : Step(r)

Spec == Init /\ [][Next]_vars

\* The booking, extension and wallet requests interleave and an awaited
\* write may reject
FailNext ==
  \/ nops < MaxRaceOps /\ Create
  \/ nops < MaxRaceOps /\ UpdateStatus
  \/ nops < MaxRaceOps /\ Extend
  \/ nops < MaxRaceOps /\ TopUp
  \/ nops < MaxRaceOps /\ Refund
  \/ nops < MaxRaceOps /\ Suspend
  \/ \E r \in reqs : Step(r)
  \/ \E r \in reqs : Fail(r)

FailSpec == Init /\ [][FailNext]_vars

\* The booking, extension and wallet requests are served one after another
\* and every write succeeds
SeqNext ==
  \/ reqs = {} /\ Create
  \/ reqs = {} /\ UpdateStatus
  \/ reqs = {} /\ Extend
  \/ reqs = {} /\ TopUp
  \/ reqs = {} /\ Refund
  \/ reqs = {} /\ Suspend
  \/ \E r \in reqs : Step(r)

SeqSpec == Init /\ [][SeqNext]_vars

\* Pricing: items listed with any of these prices, values and deposit
\* percentages, a borrower whose balance covers every quote, and booking
\* requests over date ranges of whole and broken days
PricingDailyPrices == {1, 10, 50, 100}
PricingItemValues == {100, 105, 4480, 10000}
PricingPercentages == {10, 15, 20, 100}
PricingDates == {0, DayMs \div 2, DayMs, 5 * DayMs, 5 * DayMs + 1}
PricingBalance == 100 * InitialBalance

PricingInit ==
  /\ users = [u \in Users |-> [balance |-> PricingBalance, transactions |-> <<>>,
                               totalEarnings |-> 0, isSuspended |-> FALSE]]
  /\ \E d \in PricingDailyPrices, v \in PricingItemValues, p \in PricingPercentages :
       items = [i \in {"i1"} |-> [owner |-> ItemOwner, dailyPrice |-> d,
                                  itemValue |-> v, depositPercentage |-> p,
                                  isAvailable |-> TRUE, bookings |-> 0,
                                  totalEarnings |-> 0]]
  /\ bookings = <<>>
  /\ reqs = {}
  /\ resp = Response(Request("", "", NoBooking, ""), 0)
  /\ nops = 0
  /\ settings = [maintenanceMode |-> FALSE]

PricingNext ==
  \E s \in PricingDates, e \in PricingDates : createBooking("u1", "i1", s, e)

PricingSpec == PricingInit /\ [][PricingNext]_vars

\* Maintenance: the admin switches maintenance mode on and off between
\* requests that are served one after another
MaintNext ==
  \/ reqs = {} /\ Create
  \/ reqs = {} /\ UpdateStatus
  \/ reqs = {} /\ Extend
  \/ reqs = {} /\ Message
  \/ reqs = {} /\ TopUp
  \/ reqs = {} /\ Refund
  \/ reqs = {} /\ GetBookings
  \/ reqs = {} /\ UpdateSettings
  \/ \E r \in reqs : Step(r)

MaintSpec == Init /\ [][MaintNext]_vars

----------------------------------------------------------------------------
(* The ledger as seen by the properties *)

Ledger(u) == users[u].transactions

\* Number of entries of u's ledger with this description and booking
TxCount(u, desc, b) ==
  Cardinality({i \in DOMAIN Ledger(u) :
                 Ledger(u)[i].desc = desc /\ Ledger(u)[i].bookingId = b})

RECURSIVE SumByType(_, _)
SumByType(txs, type) ==
  IF txs = <<>> THEN 0
  ELSE (IF Head(txs).type = type THEN Head(txs).amount ELSE 0) + SumByType(Tail(txs), type)

RECURSIVE SumByBooking(_, _, _)
SumByBooking(txs, type, b) ==
  IF txs = <<>> THEN 0
  ELSE (IF Head(txs).type = type /\ Head(txs).bookingId = b THEN Head(txs).amount ELSE 0)
       + SumByBooking(Tail(txs), type, b)

BookingCredited(b) ==
  SumByBooking(Ledger(bookings[b].borrower), "credit", b)
  + SumByBooking(Ledger(bookings[b].lender), "credit", b)

BookingDebited(b) == SumByBooking(Ledger(bookings[b].borrower), "debit", b)

Overlap(a, b) ==
  /\ bookings[a].startDate <= bookings[b].endDate
  /\ bookings[a].endDate >= bookings[b].startDate

----------------------------------------------------------------------------
(* C1: two concurrent approvals of one pending booking record exactly one  *)
(* payment debit on the borrower's ledger: no booking is ever paid twice.  *)
C1_SingleDebitUnderRace ==
  \A b \in BookingIds : TxCount(bookings[b].borrower, "payment", b) <= 1

(* C2: a booking's status becomes 'cancelled' only from 'pending' or       *)
(* 'approved'; a cancel request on an active or completed booking leaves   *)
(* its status as it is.                                                    *)
C2_CancelOnlyFromPendingOrApproved ==
  [][\A b \in BookingIds :
       (bookings'[b].status = "cancelled" /\ bookings[b].status # "cancelled")
         => bookings[b].status \in {"pending", "approved"}]_vars

(* C3: over any sequence of status requests at most one refund credit is   *)
(* appended to the borrower's ledger for a given booking.                  *)
C3_AtMostOneRefund ==
  \A b \in BookingIds : TxCount(bookings[b].borrower, "refund", b) <= 1

(* C4: with requests applied one after another, 'completed' requested on a *)
(* booking already completed changes no wallet, no ledger, no item and no  *)
(* booking, and the earnings credit and the deposit refund of a booking    *)
(* each occur at most once.                                                *)
C4_CompletedIsIdempotent ==
  [][/\ \A r \in reqs :
          (/\ r.handler = "updateBookingStatus"
           /\ r.target = "completed"
           /\ bookings[r.bid].status = "completed")
            => UNCHANGED <<users, items, bookings>>
     /\ \A b \in BookingIds :
          /\ TxCount(bookings'[b].lender, "earnings", b) <= 1
          /\ TxCount(bookings'[b].borrower, "deposit", b) <= 1]_vars

C4_Witness ==
  \E r \in reqs :
    /\ r.handler = "updateBookingStatus"
    /\ r.target = "completed"
    /\ bookings[r.bid].status = "completed"
    /\ TxCount(bookings[r.bid].lender, "earnings", r.bid) = 1

(* C5 as stated: every balance equals the credits minus the debits of the  *)
(* user's ledger.                                                          *)
C5_BalanceIsSignedSum ==
  \A u \in Users :
    users[u].balance = SumByType(Ledger(u), "credit") - SumByType(Ledger(u), "debit")

(* C5 amended: every balance equals the opening balance of the account     *)
(* plus the credits minus the debits of the user's ledger.                 *)
C5_BalanceIsOpeningPlusSignedSum ==
  \A u \in Users :
    users[u].balance = InitialBalance + SumByType(Ledger(u), "credit")
                                      - SumByType(Ledger(u), "debit")

C5_Witness ==
  \E u \in Users :
    /\ SumByType(Ledger(u), "credit") > 0
    /\ SumByType(Ledger(u), "debit") > 0
    /\ \E i \in DOMAIN Ledger(u) : Ledger(u)[i].desc = "topup"
    /\ \E i \in DOMAIN Ledger(u) : Ledger(u)[i].desc = "extension"

(* C6: every persisted booking has totalAmount = subtotal + depositAmount  *)
(* + platformFee and lenderEarnings = subtotal - platformFee, also after   *)
(* extensions.                                                             *)
C6_PricingIdentity ==
  \A b \in BookingIds :
    LET p == bookings[b].pricing
    IN /\ p.totalAmount = p.subtotal + p.depositAmount + p.platformFee
       /\ p.lenderEarnings = p.subtotal - p.platformFee

C6_Witness ==
  \E b \in BookingIds :
    /\ \E i \in DOMAIN bookings[b].timeline : bookings[b].timeline[i] = "extended"
    /\ bookings[b].pricing.totalDays > 1
    /\ bookings[b].pricing.platformFee > 0

(* C7: no wallet balance is ever negative.                                 *)
C7_BalanceNonNegative == \A u \in Users : users[u].balance >= 0

(* C8: the amount credited under a booking's id never exceeds the amount   *)
(* debited under it.                                                       *)
C8_NoFundLeak == \A b \in BookingIds : BookingCredited(b) <= BookingDebited(b)

(* C9: once every request has answered, also with an error after some of  *)
(* its writes, a payment debit for a booking is on the borrower's ledger   *)
(* exactly when the persisted depositPaid is true, and the completion      *)
(* credits are on the ledgers exactly when the persisted status is         *)
(* 'completed'.                                                            *)
C9_LedgerMatchesBooking ==
  reqs = {} =>
  \A b \in BookingIds :
    /\ (TxCount(bookings[b].borrower, "payment", b) > 0) <=> bookings[b].payment.depositPaid
    /\ (/\ TxCount(bookings[b].lender, "earnings", b) > 0
        /\ TxCount(bookings[b].borrower, "deposit", b) > 0)
         <=> (bookings[b].status = "completed")
    /\ (\/ TxCount(bookings[b].lender, "earnings", b) > 0
        \/ TxCount(bookings[b].borrower, "deposit", b) > 0)
         => (bookings[b].status = "completed")

(* C10: no two distinct bookings of one item are both approved or active   *)
(* over overlapping date ranges.                                           *)
C10_NoDoubleBooking ==
  \A a, b \in BookingIds :
    (/\ a # b
     /\ bookings[a].item = bookings[b].item
     /\ bookings[a].status \in {"approved", "active"}
     /\ bookings[b].status \in {"approved", "active"})
      => ~Overlap(a, b)

----------------------------------------------------------------------------
(* Requests as seen by the properties *)

\* r is a status request for target on a booking persisted in status from
Moving(r, from, target) ==
  /\ r.handler = "updateBookingStatus"
  /\ r.target = target
  /\ bookings[r.bid].status = from

\* this step is the last write of r
Done(r) == \A q \in reqs' : q.slot # r.slot

Debit(amount, desc, b) ==
  [type |-> "debit", amount |-> amount, desc |-> desc, bookingId |-> b]

Credit(amount, desc, b) ==
  [type |-> "credit", amount |-> amount, desc |-> desc, bookingId |-> b]

\* u's wallet moves by one ledger entry tx
Posted(u, tx) ==
  /\ users'[u].balance = users[u].balance + Signed(tx.type, tx.amount)
  /\ users'[u].transactions = Append(users[u].transactions, tx)

(* C11: served alone, the lender's approval of a pending booking debits    *)
(* the borrower exactly totalAmount with one 'payment' entry, leaves every *)
(* other wallet as it is, and ends with the booking approved, depositPaid  *)
(* true and the item unavailable.                                          *)
C11_ApprovalDebitsOnce ==
  [][\A r \in reqs :
       Moving(r, "pending", "approved") =>
         LET b == r.bid
             doc == bookings[b]
         IN /\ TxCount(doc.borrower, "payment", b) = 0
               \/ Len(r.todo) < Len(StatusTodo(b, doc, "approved"))
            /\ \A u \in Users \ {doc.borrower} : users'[u] = users[u]
            /\ \/ users'[doc.borrower] = users[doc.borrower]
               \/ Posted(doc.borrower, Debit(doc.pricing.totalAmount, "payment", b))
            /\ Done(r) =>
                 /\ bookings'[b].status = "approved"
                 /\ bookings'[b].payment.depositPaid
                 /\ ~items'[doc.item].isAvailable
                 /\ TxCount(doc.borrower, "payment", b) = 1
                 /\ users'[doc.borrower] = users[doc.borrower]
                 /\ bookings'[b].pricing = doc.pricing]_vars

C11_Witness ==
  /\ reqs = {}
  /\ resp = [handler |-> "updateBookingStatus", code |-> 200]
  /\ \E b \in BookingIds :
       /\ bookings[b].status = "approved"
       /\ bookings[b].payment.depositPaid
       /\ ~items[bookings[b].item].isAvailable
       /\ users[bookings[b].borrower].balance
            = InitialBalance - bookings[b].pricing.totalAmount
       /\ Ledger(bookings[b].borrower)
            = << Debit(bookings[b].pricing.totalAmount, "payment", b) >>
       /\ users[bookings[b].lender].balance = InitialBalance

(* C12: a request for 'approved' or 'cancelled' by anyone but the booking's *)
(* lender, the borrower included, is answered 403 and writes nothing: no    *)
(* such request is ever in flight, the 403 answer leaves bookings, wallets  *)
(* and items as they were, and a booking becomes approved or cancelled only *)
(* by a request of its lender or by an administrator's suspension.          *)
C12_OnlyLenderApprovesOrCancels ==
  [][/\ \A r \in reqs' :
          (r.handler = "updateBookingStatus" /\ r.target \in {"approved", "cancelled"})
            => r.actor = bookings'[r.bid].lender
     /\ (nops' = nops + 1 /\ reqs' = reqs
           /\ resp' = [handler |-> "updateBookingStatus", code |-> 403])
          => UNCHANGED <<users, items, bookings>>
     /\ \A b \in BookingIds :
          (bookings'[b].status # bookings[b].status
             /\ bookings'[b].status \in {"approved", "cancelled"})
            => \/ \E r \in reqs \ reqs' :
                    /\ r.handler = "updateBookingStatus"
                    /\ r.bid = b
                    /\ r.target = bookings'[b].status
                    /\ r.actor = bookings[b].lender
               \/ \E u \in {bookings[b].borrower, bookings[b].lender} :
                    /\ users'[u].isSuspended /\ ~users[u].isSuspended
                    /\ bookings'[b].status = "cancelled"]_vars

\* the borrower's or a bystander's request was refused: one booking made,
\* one status request answered 403, nobody was ever suspended
C12_Witness ==
  /\ nops = 2
  /\ Len(bookings) = 1
  /\ resp = [handler |-> "updateBookingStatus", code |-> 403]
  /\ reqs = {}
  /\ bookings[1].status = "pending"
  /\ bookings[1].timeline = <<"pending">>
  /\ \A u \in Users : users[u].balance = InitialBalance /\ Ledger(u) = <<>>
  /\ items[bookings[1].item].isAvailable

Settled(i) ==
  {c \in BookingIds :
     bookings[c].item = i /\ TxCount(bookings[c].lender, "earnings", c) > 0}

(* C14: served alone, the completion of an active booking credits the      *)
(* lender lenderEarnings (balance and stats.totalEarnings) and the borrower *)
(* depositAmount, one ledger entry each, raises the item's stats.bookings   *)
(* by one, and ends with the three payment flags true, status 'completed'   *)
(* and the item available.                                                  *)
C14_CompletionSettles ==
  [][\A r \in reqs :
       Moving(r, "active", "completed") =>
         LET b == r.bid
             doc == bookings[b]
             first == Len(r.todo) = Len(StatusTodo(b, doc, "completed"))
             paid == [users[doc.lender] EXCEPT
                        !.balance = @ + doc.pricing.lenderEarnings,
                        !.totalEarnings = @ + doc.pricing.lenderEarnings,
                        !.transactions =
                           Append(@, Credit(doc.pricing.lenderEarnings, "earnings", b))]
             back == [users[doc.borrower] EXCEPT
                        !.balance = @ + doc.pricing.depositAmount,
                        !.transactions =
                           Append(@, Credit(doc.pricing.depositAmount, "deposit", b))]
         IN /\ first =>
                 /\ TxCount(doc.lender, "earnings", b) = 0
                 /\ TxCount(doc.borrower, "deposit", b) = 0
                 /\ items[doc.item].bookings = Cardinality(Settled(doc.item))
            /\ \/ users' = users
               \/ users' = [users EXCEPT ![doc.lender] = paid]
               \/ users' = [users EXCEPT ![doc.borrower] = back]
            /\ items'[doc.item].bookings \in
                 {items[doc.item].bookings, items[doc.item].bookings + 1}
            /\ Done(r) =>
                 /\ bookings'[b].status = "completed"
                 /\ \A f \in {"finalPaymentMade", "lenderPaid", "depositRefunded"} :
                      bookings'[b].payment[f]
                 /\ items'[doc.item].isAvailable
                 /\ TxCount(doc.lender, "earnings", b) = 1
                 /\ TxCount(doc.borrower, "deposit", b) = 1
                 /\ items'[doc.item].bookings = Cardinality(Settled(doc.item))
                 /\ users' = users]_vars

\* a one-day booking was completed: 50 to the lender, 896 back to the borrower
C14_Witness ==
  /\ reqs = {}
  /\ resp = [handler |-> "updateBookingStatus", code |-> 200]
  /\ \E b \in BookingIds :
       LET doc == bookings[b]
       IN /\ doc.status = "completed"
          /\ doc.payment.finalPaymentMade /\ doc.payment.lenderPaid
          /\ doc.payment.depositRefunded
          /\ users[doc.lender].balance = InitialBalance + doc.pricing.lenderEarnings
          /\ users[doc.lender].totalEarnings = doc.pricing.lenderEarnings
          /\ users[doc.borrower].balance
               = InitialBalance - doc.pricing.totalAmount + doc.pricing.depositAmount
          /\ items[doc.item].bookings = 1
          /\ items[doc.item].isAvailable

(* C15: a booking goes from 'approved' to 'active' or from 'active' to      *)
(* 'completed' only by a request of its borrower or its lender; a request   *)
(* of any other user changes neither the status nor any wallet.             *)
C15_OnlyPartiesActivateOrComplete ==
  [][\A r \in reqs :
       (r.handler = "updateBookingStatus" /\ r.target \in {"active", "completed"}
          /\ r.actor \notin {bookings[r.bid].borrower, bookings[r.bid].lender})
         => /\ bookings'[r.bid].status = bookings[r.bid].status
            /\ users' = users]_vars

\* this step is a createBooking request, served in one step
Created == nops' = nops + 1 /\ reqs' = reqs /\ resp'.handler = "createBooking"

(* C16: createBooking never changes a wallet, a ledger or an item; it      *)
(* either persists nothing or adds exactly one booking, which is pending    *)
(* with the single timeline entry 'pending' and no payment flag set, and it *)
(* adds one only when the item exists, is available, is not the requester's *)
(* own and the requester's balance covers totalAmount; it answers 201       *)
(* exactly when it added the booking.                                       *)
C16_CreateOnlyAddsPending ==
  [][Created =>
       /\ users' = users
       /\ items' = items
       /\ \/ bookings' = bookings /\ resp'.code # 201
          \/ /\ resp'.code = 201
             /\ Len(bookings') = Len(bookings) + 1
             /\ SubSeq(bookings', 1, Len(bookings)) = bookings
             /\ LET nb == bookings'[Len(bookings')]
                IN /\ nb.status = "pending"
                   /\ nb.timeline = <<"pending">>
                   /\ \A f \in PaymentFlags : ~nb.payment[f]
                   /\ nb.item \in DOMAIN items
                   /\ items[nb.item].isAvailable
                   /\ items[nb.item].owner # nb.borrower
                   /\ nb.lender = items[nb.item].owner
                   /\ users[nb.borrower].balance >= nb.pricing.totalAmount]_vars

\* a first request was refused (own item, unknown item or a two-day price
\* above the balance) and persisted nothing
C16_Witness ==
  /\ nops = 1
  /\ resp.handler = "createBooking"
  /\ resp.code \in {400, 404}
  /\ bookings = <<>>
  /\ \A u \in Users : users[u].balance = InitialBalance /\ Ledger(u) = <<>>

\* Proposed dates, reaching past every date a stored booking can have
ProbeDates == {k * TickMs : k \in 0..(MaxTick + 1)}

\* The rule as stated: an approved or active booking of the item whose
\* closed date range meets the proposed one
DateConflict(i, startDate, endDate) ==
  \E b \in BookingIds :
    /\ bookings[b].item = i
    /\ bookings[b].status \in {"approved", "active"}
    /\ ~(bookings[b].endDate < startDate \/ endDate < bookings[b].startDate)

\* nothing but the dates can make createBooking(a, i, s, e) answer 400
OtherwiseBookable(a, i, s, e) ==
  /\ nops < MaxOps
  /\ ~suspended(a)
  /\ i \in DOMAIN items
  /\ items[i].owner # a
  /\ items[i].isAvailable
  /\ ~insufficientBalance(users[a],
        calculatePricing(items[i].dailyPrice, items[i].itemValue,
                         items[i].depositPercentage, s, e))

(* C17: a createBooking that nothing else stops is refused exactly when an *)
(* approved or active booking of the same item has a date range meeting    *)
(* the proposed one, touching ends included, and is accepted exactly when   *)
(* there is none; pending, completed and cancelled bookings never refuse it.*)
C17_ConflictExactlyOnApprovedOrActive ==
  \A a \in Users, i \in DOMAIN items, s \in ProbeDates, e \in ProbeDates :
    OtherwiseBookable(a, i, s, e) =>
      /\ (ENABLED (createBooking(a, i, s, e) /\ resp'.code = 400))
           <=> DateConflict(i, s, e)
      /\ (s < e /\ Len(bookings) < MaxBookings) =>
           ((ENABLED (createBooking(a, i, s, e) /\ resp'.code = 201))
              <=> ~DateConflict(i, s, e))

\* the item is open again while an approved booking holds dates, a request
\* was refused, and two bookings of the item with meeting date ranges were
\* both stored while pending
C17_Witness ==
  /\ resp = [handler |-> "createBooking", code |-> 400]
  /\ Len(bookings) = 2
  /\ bookings[1].item = bookings[2].item
  /\ Overlap(1, 2)
  /\ bookings[1].status = "approved"
  /\ bookings[2].status = "cancelled"
  /\ items[bookings[1].item].isAvailable
  /\ \E a \in Users, s \in ProbeDates, e \in ProbeDates :
       /\ items[bookings[1].item].owner # a
       /\ ~suspended(a)
       /\ ~insufficientBalance(users[a],
             calculatePricing(ItemDailyPrice, ItemValue, ItemDepositPercentage, s, e))
       /\ DateConflict(bookings[1].item, s, e)

(* C18: every persisted booking has startDate < endDate and at least one    *)
(* rental day in every reachable state: a create request with endDate <=    *)
(* startDate persists nothing, and an extension only ever moves a booking's *)
(* endDate later.                                                           *)
C18_DatesOrderedAndEndOnlyLater ==
  [][/\ \A b \in DOMAIN bookings' :
          /\ bookings'[b].startDate < bookings'[b].endDate
          /\ bookings'[b].pricing.totalDays >= 1
     /\ \A b \in BookingIds :
          /\ bookings'[b].startDate = bookings[b].startDate
          /\ bookings'[b].endDate >= bookings[b].endDate]_vars

\* no payment flag of a stored booking goes from true to false in this step
FlagsMonotone ==
  \A b \in BookingIds, f \in PaymentFlags :
    bookings[b].payment[f] => bookings'[b].payment[f]

\* with no request in flight, every booking whose borrower got money back
\* under one of these descriptions has depositRefunded set
RefundedFlagCovers(descs) ==
  reqs = {} =>
    \A b \in BookingIds :
      (\E d \in descs : TxCount(bookings[b].borrower, d, b) > 0)
        => bookings[b].payment.depositRefunded

(* C19: each payment flag is monotone, once true never false again, and    *)
(* depositRefunded is true whenever the booking's payment or deposit has    *)
(* been credited back to the borrower, by a cancellation refund or by       *)
(* completion.                                                              *)
C19_FlagsMonotoneAndRefundFlagged ==
  [][FlagsMonotone /\ RefundedFlagCovers({"refund", "deposit"})']_vars

(* C19, amended: each payment flag is monotone, and depositRefunded is true *)
(* whenever completion has credited the deposit back to the borrower; a     *)
(* cancellation refund does not set it.                                     *)
C19_FlagsMonotoneAndCompletionFlagged ==
  [][FlagsMonotone /\ RefundedFlagCovers({"deposit"})']_vars

\* a completed booking with its deposit returned and all four flags set
C19_Witness ==
  /\ reqs = {}
  /\ \E b \in BookingIds :
       /\ TxCount(bookings[b].borrower, "deposit", b) = 1
       /\ TxCount(bookings[b].borrower, "refund", b) = 0
       /\ \A f \in PaymentFlags : bookings[b].payment[f]

(* C20: a booking's timeline is append-only and gains exactly one entry per *)
(* status change: no step removes or rewrites an entry, every change of     *)
(* status appends exactly one entry carrying the new status, and a status   *)
(* request that leaves the status as it is appends nothing (the only other  *)
(* entry is the one an extension appends).                                  *)
C20_OneTimelineEntryPerStatusChange ==
  [][\A b \in BookingIds :
       LET old == bookings[b].timeline
           new == bookings'[b].timeline
       IN /\ Len(new) >= Len(old)
          /\ SubSeq(new, 1, Len(old)) = old
          /\ bookings'[b].status # bookings[b].status
               => new = Append(old, bookings'[b].status)
          /\ bookings'[b].status = bookings[b].status
               => (new = old \/ new = Append(old, "extended"))]_vars

\* The status a booking must be in for a request for target to act
RequiredSource(target) ==
  CASE target = "approved" -> "pending"
    [] target = "active" -> "approved"
    [] target = "completed" -> "active"
    [] OTHER -> NoChange

(* C21: served alone, a status request for 'approved', 'active' or          *)
(* 'completed' on a booking that is not in the required source status       *)
(* (pending, approved, active) changes nothing: bookings, wallets and items *)
(* stay as they are, and the request is still answered 200.                 *)
C21_WrongSourceIsNoOp ==
  [][\A r \in reqs :
       (/\ r.handler = "updateBookingStatus"
        /\ r.target \in {"approved", "active", "completed"}
        /\ bookings[r.bid].status # RequiredSource(r.target))
         => /\ UNCHANGED <<users, items, bookings>>
            /\ Done(r)
            /\ resp' = [handler |-> "updateBookingStatus", code |-> 200]]_vars

\* a pending booking was asked to become active or completed: 200, no change
C21_Witness ==
  /\ nops = 2
  /\ reqs = {}
  /\ resp = [handler |-> "updateBookingStatus", code |-> 200]
  /\ Len(bookings) = 1
  /\ bookings[1].status = "pending"
  /\ bookings[1].timeline = <<"pending">>
  /\ \A f \in PaymentFlags : ~bookings[1].payment[f]
  /\ \A u \in Users : users[u].balance = InitialBalance /\ Ledger(u) = <<>>
  /\ items[bookings[1].item].isAvailable

\* the requests this step admitted
Admitted == {r \in reqs' : \A q \in reqs : q.slot # r.slot}

\* the write an admitted extension will save, and the debit it will post
ExtensionOf(r) == r.todo[Len(r.todo)].delta.ext[1]

ChargeOf(r) == r.todo[1].amount

(* C22: an extension is admitted only when the caller owns the item, the    *)
(* booking is approved or active, the new end date is after the stored one  *)
(* and the borrower's balance covers the additional cost; a refused         *)
(* extension changes no booking, no wallet and no item.                     *)
C22_ExtendOnlyWhenAllowed ==
  [][/\ \A r \in Admitted :
          r.handler = "extendRentalPeriod" =>
            LET doc == bookings[r.bid]
            IN /\ r.actor = items[doc.item].owner
               /\ doc.status \in {"approved", "active"}
               /\ ExtensionOf(r).endDate > doc.endDate
               /\ ChargeOf(r)
                    = Ceil(ExtensionOf(r).endDate - doc.endDate, DayMs)
                        * doc.pricing.dailyPrice
               /\ users[doc.borrower].balance >= ChargeOf(r)
               /\ UNCHANGED <<users, items, bookings>>
     /\ (nops' = nops + 1 /\ reqs' = reqs /\ resp'.handler = "extendRentalPeriod")
          => /\ resp'.code \in {400, 403, 404}
             /\ UNCHANGED <<users, items, bookings>>]_vars

\* the owner's extension of an approved booking was refused for its date or
\* for the borrower's balance
C22_Witness ==
  /\ nops = 3
  /\ reqs = {}
  /\ resp = [handler |-> "extendRentalPeriod", code |-> 400]
  /\ Len(bookings) = 1
  /\ bookings[1].status = "approved"
  /\ bookings[1].timeline = <<"pending", "approved">>
  /\ bookings[1].endDate = TickMs
  /\ Ledger(bookings[1].borrower)
       = << Debit(bookings[1].pricing.totalAmount, "payment", 1) >>

(* C23: served alone, an admitted extension to newEnd, with additionalDays  *)
(* the days from the old end to newEnd rounded up and additionalCost that   *)
(* many daily prices, first debits the borrower exactly additionalCost with *)
(* one 'extension' entry and then saves the booking with totalDays raised   *)
(* by additionalDays, subtotal, totalAmount and lenderEarnings raised by    *)
(* additionalCost and one 'extended' timeline entry; depositAmount,         *)
(* platformFee, dailyPrice, status and the payment flags stay as they were. *)
C23_ExtensionEffects ==
  [][\A r \in reqs :
       r.handler = "extendRentalPeriod" =>
         LET b == r.bid
             doc == bookings[b]
             newEnd == ExtensionOf(r).endDate
             days == -((doc.endDate - newEnd) \div DayMs)
             cost == days * doc.pricing.dailyPrice
         IN /\ items' = items
            /\ \A c \in BookingIds \ {b} : bookings'[c] = bookings[c]
            /\ ~Done(r) =>
                 /\ Posted(doc.borrower, Debit(cost, "extension", b))
                 /\ \A u \in Users \ {doc.borrower} : users'[u] = users[u]
                 /\ bookings' = bookings
            /\ Done(r) =>
                 /\ users' = users
                 /\ Ledger(doc.borrower)[Len(Ledger(doc.borrower))]
                      = Debit(cost, "extension", b)
                 /\ bookings'[b] =
                      [doc EXCEPT !.endDate = newEnd,
                                  !.pricing.totalDays = @ + days,
                                  !.pricing.subtotal = @ + cost,
                                  !.pricing.totalAmount = @ + cost,
                                  !.pricing.lenderEarnings = @ + cost,
                                  !.timeline = Append(@, "extended")]
                 /\ resp' = [handler |-> "extendRentalPeriod", code |-> 200]]_vars

\* an approved one-day booking was extended by nine hours: one more day
C23_Witness ==
  /\ reqs = {}
  /\ resp = [handler |-> "extendRentalPeriod", code |-> 200]
  /\ \E b \in BookingIds :
       /\ bookings[b].timeline = <<"pending", "approved", "extended">>
       /\ bookings[b].endDate = TickMs + TickMs \div 2
       /\ bookings[b].pricing.totalDays = 2
       /\ bookings[b].pricing.subtotal = 2 * ItemDailyPrice
       /\ bookings[b].status = "approved"
       /\ TxCount(bookings[b].borrower, "extension", b) = 1
       /\ users[bookings[b].borrower].balance
            = InitialBalance - bookings[b].pricing.totalAmount

\* the ledger entry a wallet write carries
EntryOf(op) ==
  [type |-> op.type, amount |-> op.amount, desc |-> op.desc, bookingId |-> op.bid]

\* u's ledger grew by exactly the entry e and the balance moved by its amount
Applied(u, e) ==
  /\ users'[u].transactions = Append(users[u].transactions, e)
  /\ users'[u].balance
       = users[u].balance + (IF e.type = "credit" THEN e.amount ELSE 0 - e.amount)

(* C24: no ledger update is lost, whatever the interleaving: every wallet   *)
(* write a request in flight issues appends exactly its one entry to that    *)
(* user's ledger and moves the balance by exactly its amount, no step        *)
(* changes a wallet in any other way, and each balance stays the opening     *)
(* balance plus the credits minus the debits of the ledger.                  *)
C24_NoLostLedgerUpdate ==
  [][/\ \A r \in reqs :
          (r \notin reqs' /\ Head(r.todo).k = "wallet")
            => Applied(Head(r.todo).user, EntryOf(Head(r.todo)))
     /\ \A u \in Users :
          \/ /\ users'[u].transactions = users[u].transactions
             /\ users'[u].balance = users[u].balance
          \/ /\ Len(users'[u].transactions) = Len(users[u].transactions) + 1
             /\ Applied(u, users'[u].transactions[Len(users'[u].transactions)])
     /\ \A u \in Users :
          users'[u].balance
            = InitialBalance + SumByType(users'[u].transactions, "credit")
                - SumByType(users'[u].transactions, "debit")]_vars

\* two requests on different bookings are in flight; one has debited the
\* borrower and the other's debit of the same wallet is still to come
C24_Witness ==
  \E r1 \in reqs, r2 \in reqs :
    /\ r1.bid # r2.bid
    /\ Head(r2.todo).k = "wallet"
    /\ Head(r1.todo).k # "wallet"
    /\ Ledger(Head(r2.todo).user) # <<>>
    /\ Ledger(Head(r2.todo).user)[Len(Ledger(Head(r2.todo).user))].bookingId = r1.bid

(* C25: the availability flag follows the bookings: with no request in      *)
(* flight, an item that has an approved or active booking is not available; *)
(* cancelling or completing one booking never opens the item while another  *)
(* booking of it is still approved or active.                               *)
C25_HeldItemIsUnavailable ==
  reqs = {} =>
    \A b \in BookingIds :
      bookings[b].status \in {"approved", "active"}
        => ~items[bookings[b].item].isAvailable

(* C26: a message is accepted only from the booking's borrower or lender,   *)
(* anyone else is refused with no change; an accepted message is appended   *)
(* once at the end of that booking's messages and its save leaves status,   *)
(* payment flags, pricing, timeline, every wallet and the item as they are, *)
(* also while a status change of the same booking is in flight.             *)
C26_MessageOnlyAppends ==
  [][/\ \A r \in Admitted :
          r.handler = "addBookingMessage"
            => /\ r.actor \in {bookings[r.bid].borrower, bookings[r.bid].lender}
               /\ UNCHANGED <<users, items, bookings>>
     /\ \A r \in reqs :
          (r.handler = "addBookingMessage" /\ Done(r))
            => /\ bookings' =
                    [bookings EXCEPT ![r.bid].messages =
                       Append(@, [sender |-> r.actor, message |-> r.target])]
               /\ UNCHANGED <<users, items>>
               /\ resp' = [handler |-> "addBookingMessage", code |-> 200]
     /\ (nops' = nops + 1 /\ reqs' = reqs /\ resp'.handler = "addBookingMessage")
          => /\ resp'.code \in {403, 404}
             /\ UNCHANGED <<users, items, bookings>>
     /\ \A b \in BookingIds :
          /\ Len(bookings'[b].messages) >= Len(bookings[b].messages)
          /\ SubSeq(bookings'[b].messages, 1, Len(bookings[b].messages))
               = bookings[b].messages]_vars

\* a message of a party and an approval of the same booking are in flight
\* together, the approval already having debited the borrower
C26_Witness ==
  \E r1 \in reqs, r2 \in reqs :
    /\ r1.handler = "updateBookingStatus"
    /\ r2.handler = "addBookingMessage"
    /\ r1.bid = r2.bid
    /\ r1.target = "approved"
    /\ TxCount(bookings[r1.bid].borrower, "payment", r1.bid) = 1
    /\ bookings[r1.bid].status = "pending"

(* C27: for every listed dailyPrice, itemValue and depositPercentage and    *)
(* every stored date range, the pricing of a booking has totalDays the days *)
(* from start to end rounded up, subtotal = dailyPrice * totalDays,         *)
(* depositAmount = itemValue * depositPercentage / 100 rounded half-up,     *)
(* platformFee = 5% of subtotal rounded half-up, totalAmount = subtotal +   *)
(* depositAmount + platformFee and lenderEarnings = subtotal - platformFee; *)
(* 5 days at 100 a day, value 10000, 20% give 5, 500, 2000, 25, 2525, 475.  *)
C27_PricingNumbers ==
  \A b \in BookingIds :
    LET p == bookings[b].pricing
        it == items[bookings[b].item]
        span == bookings[b].endDate - bookings[b].startDate
    IN /\ span > 0
       /\ (p.totalDays - 1) * DayMs < span /\ span <= p.totalDays * DayMs
       /\ p.dailyPrice = it.dailyPrice
       /\ p.subtotal = it.dailyPrice * p.totalDays
       /\ 100 * p.depositAmount <= it.itemValue * it.depositPercentage + 50
       /\ it.itemValue * it.depositPercentage + 50 < 100 * (p.depositAmount + 1)
       /\ 100 * p.platformFee <= 5 * p.subtotal + 50
       /\ 5 * p.subtotal + 50 < 100 * (p.platformFee + 1)
       /\ p.totalAmount = p.subtotal + p.depositAmount + p.platformFee
       /\ p.lenderEarnings = p.subtotal - p.platformFee
       /\ (it.dailyPrice = 100 /\ it.itemValue = 10000 /\ it.depositPercentage = 20
             /\ span = 5 * DayMs)
            => p = [dailyPrice |-> 100, totalDays |-> 5, subtotal |-> 500,
                    depositAmount |-> 2000, platformFee |-> 25,
                    totalAmount |-> 2525, lenderEarnings |-> 475]

\* the five-day example and a quote whose deposit and fee both end in .5
C27_Witness ==
  /\ Len(bookings) = 2
  /\ \/ /\ bookings[1].pricing.totalAmount = 2525
        /\ bookings[1].pricing.lenderEarnings = 475
        /\ bookings[2].pricing.totalDays = 6
     \/ /\ items["i1"].itemValue = 105 /\ items["i1"].depositPercentage = 10
        /\ bookings[1].pricing.depositAmount = 11
        /\ bookings[1].pricing.subtotal = 10
        /\ bookings[1].pricing.platformFee = 1
        /\ bookings[2].pricing.subtotal = 50
        /\ bookings[2].pricing.platformFee = 3

(* C28: with no request in flight, every cancelled booking whose deposit    *)
(* was paid, whether the lender cancelled it or a suspension did, has a     *)
(* refund credit of pricing.totalAmount on the borrower's ledger and its    *)
(* item is available again.                                                 *)
C28_PaidCancelledIsRefunded ==
  reqs = {} =>
    \A b \in BookingIds :
      (bookings[b].status = "cancelled" /\ bookings[b].payment.depositPaid)
        => /\ \E k \in DOMAIN Ledger(bookings[b].borrower) :
                Ledger(bookings[b].borrower)[k]
                  = Credit(bookings[b].pricing.totalAmount, "refund", b)
           /\ items[bookings[b].item].isAvailable

\* the entries of seq occur in the timeline tl in this order
RECURSIVE InOrder(_, _)
InOrder(tl, seq) ==
  IF seq = <<>> THEN TRUE
  ELSE IF tl = <<>> THEN FALSE
  ELSE IF Head(tl) = Head(seq) THEN InOrder(Tail(tl), Tail(seq))
  ELSE InOrder(Tail(tl), seq)

(* C29: in every state, also while requests interleave or a write rejects, *)
(* lenderPaid implies depositPaid and a timeline with 'approved' before    *)
(* 'active' before 'completed'; a ledger holds rental earnings of a booking *)
(* only if the borrower's ledger holds its payment; and an active or        *)
(* completed booking has every earlier status in its timeline, in order.    *)
C29_SettlementOrdering ==
  \A b \in BookingIds :
    LET doc == bookings[b]
    IN
    /\ doc.payment.lenderPaid
         => /\ doc.payment.depositPaid
            /\ InOrder(doc.timeline, <<"approved", "active", "completed">>)
    /\ TxCount(doc.lender, "earnings", b) > 0
         => TxCount(doc.borrower, "payment", b) > 0
    /\ doc.status = "active"
         => InOrder(doc.timeline, <<"pending", "approved", "active">>)
    /\ doc.status = "completed"
         => InOrder(doc.timeline, <<"pending", "approved", "active", "completed">>)

\* a booking has been settled: the lender holds its earnings, lenderPaid is set
C29_Witness ==
  \E b \in BookingIds :
    /\ bookings[b].status = "completed"
    /\ bookings[b].payment.lenderPaid
    /\ TxCount(bookings[b].lender, "earnings", b) = 1
    /\ bookings[b].timeline = <<"pending", "approved", "active", "completed">>

\* handlers of the routes under /api/admin
AdminHandlers == {"updateComplaint", "toggleUserSuspension", "updateAdminSettings"}

\* this step answers a request at once, without any write left to make
Answered == nops' = nops + 1 /\ reqs' = reqs

\* under maintenance, a step outside the admin routes changes no wallet
\* balance and no booking
NoWriteUnderMaintenance ==
  (isMaintenanceEnabled /\ ~(Answered /\ resp'.handler \in AdminHandlers))
    => /\ \A u \in Users : users'[u].balance = users[u].balance
       /\ bookings' = bookings

\* under maintenance, a request that is neither an admin request nor a GET
\* is answered 503 without reaching its handler
WritesAnswered503 ==
  (isMaintenanceEnabled /\ nops' = nops + 1
     /\ ~(Answered /\ resp'.handler \in AdminHandlers \cup {"getUserBookings"}))
    => Answered /\ resp'.code = 503

GetNeverBlocked ==
  (Answered /\ resp'.handler = "getUserBookings") => resp'.code # 503

(* C30: while maintenance mode is on, a step that is not the answer of an  *)
(* /api/admin route changes no wallet balance and no booking; every        *)
(* request of another route that is not a GET is answered 503 without      *)
(* reaching its handler; and a GET is never answered 503.                  *)
C30_MaintenanceBlocksWrites ==
  [][NoWriteUnderMaintenance /\ WritesAnswered503 /\ GetNeverBlocked]_vars

====
